---- MODULE Spec2Model ----
(***************************************************************************)
(* rpassword (src/lib.rs): reading one secret line from standard input,    *)
(* the controlling terminal or a supplied buffered reader, with the        *)
(* terminal echo switched off around the read.                             *)
(*                                                                         *)
(* One call of a public entry point is a run of steps, one step per OS     *)
(* call of the platform driver; every OS call may fail.  The two drivers   *)
(* (mod unix, mod windows) are mutually exclusive builds: `platform' is    *)
(* chosen once and never changes.                                          *)
(***************************************************************************)
EXTENDS Integers, Sequences, FiniteSets, TLC

\* ------------------------------------------------------------------ bounds
MaxLen == 3      \* longest content of an input source, in bytes

\* --------------------------------------------------------------- constants
LF    == 10      \* '\n'
CR    == 13      \* '\r'
CharA == 65      \* 'A', an ordinary character of a secret
NUL   == 0       \* the byte zero_memory writes

Alphabet == {LF, CR, CharA}
Strings  == UNION {[1..n -> Alphabet] : n \in 0..MaxLen}

Platforms == {"unix", "windows"}

\* c_lflag of the POSIX termios; ICANON stands for every flag other than the
\* two the driver touches.
LFlags == {"ECHO", "ECHONL", "ICANON"}
\* the console input mode of the Windows console
ConsoleFlags == {"ENABLE_ECHO_INPUT", "ENABLE_LINE_INPUT", "ENABLE_PROCESSED_INPUT"}

ModeFlags(p) == IF p = "unix" THEN LFlags ELSE ConsoleFlags

\* a termios / DWORD local that holds no mode yet
NoMode == {"<unset>"}

VARIABLES
    platform,      \* "unix" | "windows": which driver is compiled in
    stdinIsTty,    \* is the process's standard input an interactive terminal
    devMode,       \* the mode of the terminal / console device (set of flags)
    input,         \* bytes the source being read has still to deliver
    openFds,       \* descriptors this library opened and has not closed
    pc,            \* position of the current call
    entry,         \* the public entry point of the current call
    open_tty,      \* argument of read_password_from_stdin
    src,           \* Source::Tty | Source::Stdin | the supplied reader
    input_is_tty,  \* local of unix::read_password_from_stdin
    password,      \* the secret buffer (sequence of bytes)
    term,          \* unix: the working termios copy
    term_orig,     \* unix: the backup termios copy
    mode,          \* windows: the console mode saved at entry
    readErr,       \* the line read failed (the `input' result is Err)
    result,        \* what the call returned
    calls,         \* OS calls issued by the current call, by kind
    written,       \* what the current call wrote, and where
    modeAtEntry,   \* devMode when the current call started
    inputAtEntry,  \* input when the current call started
    rawLine,       \* the buffer as the line read left it
    failed,        \* kinds of OS call that failed during the current call
    pcB,           \* a second thread in read_password_from_stdin(true): position
    termB,         \* the second thread's working termios copy
    term_origB,    \* the second thread's backup termios copy
    passwordB,     \* the second thread's secret buffer
    resultB,       \* what the second thread's call returned
    modeAtEntryB   \* devMode when the second thread's call started

vars == <<platform, stdinIsTty, devMode, input, openFds, pc, entry, open_tty, src,
          input_is_tty, password, term, term_orig, mode, readErr, result, calls,
          written, modeAtEntry, inputAtEntry, rawLine, failed, pcB, termB,
          term_origB, passwordB, resultB, modeAtEntryB>>

CallKinds == {"open", "get", "apply", "restore", "read"}
NoCalls   == [k \in CallKinds |-> 0]
Issue(k)  == [calls EXCEPT ![k] = @ + 1]

NoResult == [kind |-> "None", val |-> <<>>, err |-> "none"]
Ok(s)    == [kind |-> "Ok", val |-> s, err |-> "none"]
Err(e)   == [kind |-> "Err", val |-> <<>>, err |-> e]

\* ------------------------------------------------------------ pure helpers

\* String::ends_with(char)
ends_with(s, c) == Len(s) > 0 /\ s[Len(s)] = c

\* String::pop
pop(s) == IF Len(s) = 0 THEN s ELSE SubSeq(s, 1, Len(s) - 1)

\* fn zero_memory: every byte of the string set to 0, length unchanged
zero_memory(s) == [i \in 1..Len(s) |-> NUL]

\* a sanitizer that forgets the '\r' of a "\r\n"
fixes_newline_lf_only(s) == IF ends_with(s, LF) THEN pop(s) ELSE s

\* a sanitizer that strips a trailing '\r' whether or not a '\n' followed it
fixes_newline_strip_cr(s) ==
    LET t == IF ends_with(s, LF) THEN pop(s) ELSE s
    IN  IF ends_with(t, CR) THEN pop(t) ELSE t

\* fn fixes_newline
fixes_newline(s) ==
    IF ends_with(s, LF)
    THEN IF ends_with(pop(s), CR) THEN pop(pop(s)) ELSE pop(s)
    ELSE s

\* index of the first '\n' of s, 0 when there is none
FirstLF(s) ==
    IF \E i \in 1..Len(s) : s[i] = LF
    THEN CHOOSE i \in 1..Len(s) : s[i] = LF /\ \A j \in 1..(i - 1) : s[j] # LF
    ELSE 0

\* a read that takes everything the source holds, not one line
LineOf_to_end(s) == s

\* BufRead::read_line on success: the bytes up to and including the first '\n',
\* or everything left when there is none (end of input)
LineOf(s) == IF FirstLF(s) = 0 THEN s ELSE SubSeq(s, 1, FirstLF(s))
RestOf(s) == SubSeq(s, Len(LineOf(s)) + 1, Len(s))

\* BufRead::read_line on failure: the bytes appended before the error; the
\* error strikes before the '\n' is found
PartialReads(s) ==
    {SubSeq(s, 1, k) : k \in 0..(IF FirstLF(s) = 0 THEN Len(s) ELSE FirstLF(s) - 1)}

\* ---------------------------------------------------------------- initial

\* the locals of the second thread, which is in no call
second == <<pcB, termB, term_origB, passwordB, resultB, modeAtEntryB>>

SecondIdle ==
    /\ pcB = "idle"
    /\ termB = NoMode
    /\ term_origB = NoMode
    /\ passwordB = <<>>
    /\ resultB = NoResult
    /\ modeAtEntryB = {}

\* io_result: an OS call of kind k returned an error / returned success
Fails(k) == failed' = failed \cup {k}
Succeeds == failed' = failed

Init ==
    /\ platform \in Platforms
    /\ stdinIsTty \in BOOLEAN
    /\ devMode \in SUBSET ModeFlags(platform)
    /\ input = <<>>
    /\ openFds = {}
    /\ pc = "idle"
    /\ entry = "none"
    /\ open_tty = FALSE
    /\ src = "none"
    /\ input_is_tty = FALSE
    /\ password = <<>>
    /\ term = NoMode
    /\ term_orig = NoMode
    /\ mode = NoMode
    /\ readErr = FALSE
    /\ result = NoResult
    /\ calls = NoCalls
    /\ written = {}
    /\ modeAtEntry = devMode
    /\ inputAtEntry = <<>>
    /\ rawLine = <<>>
    /\ failed = {}
    /\ SecondIdle

\* ----------------------------------------------------------- entry points

envVars   == <<platform, stdinIsTty>>
unixTerms == <<term, term_orig>>

\* the state every call starts from: fresh locals, `content' waiting in the
\* source the call is going to read
Enter(e, tty, content, next) ==
    /\ pc = "idle"
    /\ entry' = e
    /\ open_tty' = tty
    /\ input' = content
    /\ pc' = next
    /\ src' = "none"
    /\ input_is_tty' = FALSE
    /\ password' = <<>>
    /\ term' = NoMode
    /\ term_orig' = NoMode
    /\ mode' = NoMode
    /\ readErr' = FALSE
    /\ result' = NoResult
    /\ calls' = NoCalls
    /\ written' = {}
    /\ modeAtEntry' = devMode
    /\ inputAtEntry' = content
    /\ rawLine' = <<>>
    /\ failed' = {}
    /\ UNCHANGED <<envVars, second, devMode, openFds>>

\* a read_password that asks the driver to open the terminal device
read_password_opens_tty ==
    \E content \in Strings : Enter("read_password", TRUE, content, "open")

\* pub fn read_password: read_password_with_reader(None)
read_password ==
    \E content \in Strings : Enter("read_password", FALSE, content, "open")

\* pub fn read_password_with_reader: Some(reader) reads the reader, None goes
\* to read_password_from_stdin(false)
read_password_with_reader ==
    \E content \in Strings, some \in BOOLEAN :
        IF some
        THEN Enter("read_password_with_reader_some", FALSE, content, "reader")
        ELSE Enter("read_password_with_reader_none", FALSE, content, "open")

\* pub fn read_password_from_tty: the optional prompt, then
\* read_password_from_stdin(true)
read_password_from_tty ==
    \E content \in Strings, prompt \in BOOLEAN :
        Enter("read_password_from_tty", TRUE, content,
              IF prompt THEN "display" ELSE "open")

\* a prompt_password_stdout that reads from the terminal device
prompt_password_stdout_opens_tty ==
    \E content \in Strings : Enter("prompt_password_stdout", TRUE, content, "prompt")

\* pub fn prompt_password_stdout
prompt_password_stdout ==
    \E content \in Strings : Enter("prompt_password_stdout", FALSE, content, "prompt")

\* pub fn prompt_password_stderr
prompt_password_stderr ==
    \E content \in Strings : Enter("prompt_password_stderr", FALSE, content, "prompt")

\* the return of a call with result r; fds is what stays open
Finish(r, fds) ==
    /\ result' = r
    /\ pc' = "done"
    /\ openFds' = fds

\* the Some(reader) arm of read_password_with_reader
reader_read_line ==
    /\ pc = "reader"
    /\ src' = "reader"
    /\ calls' = Issue("read")
    /\ \/ /\ rawLine' = LineOf(input)
          /\ input' = RestOf(input)
          /\ password' = fixes_newline(rawLine')
          /\ readErr' = FALSE
          /\ Succeeds
          /\ Finish(Ok(password'), openFds)
       \/ \E part \in PartialReads(input) :
          /\ rawLine' = part
          /\ input' = SubSeq(input, Len(part) + 1, Len(input))
          /\ password' = zero_memory(part)
          /\ readErr' = TRUE
          /\ Fails("read")
          /\ Finish(Err("read"), openFds)
    /\ UNCHANGED <<envVars, second, devMode, entry, open_tty, input_is_tty, unixTerms, mode,
                   written, modeAtEntry, inputAtEntry>>

\* display_on_tty (both drivers): open the terminal output device, write the
\* prompt, flush; the stream is dropped (closed) when the function returns
display_on_tty ==
    /\ pc = "display"
    /\ \/ /\ written' = written \cup {<<"tty", "prompt">>}
          /\ pc' = "open"
          /\ UNCHANGED result
          /\ Succeeds
       \/ \E e \in {"open_out", "write"} :
          /\ written' = written
          /\ pc' = "done"
          /\ result' = Err(e)
          /\ Fails("write")
       \/ /\ written' = written \cup {<<"tty", "prompt">>}
          /\ pc' = "done"
          /\ result' = Err("flush")
          /\ Fails("write")
    /\ UNCHANGED <<envVars, second, devMode, input, openFds, entry, open_tty, src, input_is_tty,
                   password, unixTerms, mode, readErr, calls, modeAtEntry,
                   inputAtEntry, rawLine>>

\* a prologue that drops the error of write!/flush and goes on to read
prompt_write_ignores_error ==
    /\ pc = "prompt"
    /\ LET stream == IF entry = "prompt_password_stdout" THEN "stdout" ELSE "stderr"
       IN \/ /\ written' = written \cup {<<stream, "prompt">>}
             /\ Succeeds
          \/ /\ written' = written
             /\ Fails("write")
    /\ pc' = "open"
    /\ UNCHANGED <<envVars, second, devMode, input, openFds, entry, open_tty, src, input_is_tty,
                   password, unixTerms, mode, readErr, calls, modeAtEntry,
                   inputAtEntry, rawLine, result>>

\* the write!/flush prologue of prompt_password_stdout / prompt_password_stderr
prompt_write ==
    /\ pc = "prompt"
    /\ LET stream == IF entry = "prompt_password_stdout" THEN "stdout" ELSE "stderr"
       IN \/ /\ written' = written \cup {<<stream, "prompt">>}
             /\ pc' = "open"
             /\ UNCHANGED result
             /\ Succeeds
          \/ /\ written' = written
             /\ pc' = "done"
             /\ result' = Err("write")
             /\ Fails("write")
          \/ /\ written' = written \cup {<<stream, "prompt">>}
             /\ pc' = "done"
             /\ result' = Err("flush")
             /\ Fails("write")
    /\ UNCHANGED <<envVars, second, devMode, input, openFds, entry, open_tty, src, input_is_tty,
                   password, unixTerms, mode, readErr, calls, modeAtEntry,
                   inputAtEntry, rawLine>>

\* the caller takes the result and the call's locals are gone; the next call
\* may start
Return ==
    /\ pc = "done"
    /\ pc' = "idle"
    /\ entry' = "none"
    /\ open_tty' = FALSE
    /\ input' = <<>>
    /\ src' = "none"
    /\ input_is_tty' = FALSE
    /\ password' = <<>>
    /\ term' = NoMode
    /\ term_orig' = NoMode
    /\ mode' = NoMode
    /\ readErr' = FALSE
    /\ result' = NoResult
    /\ calls' = NoCalls
    /\ written' = {}
    /\ modeAtEntry' = devMode
    /\ inputAtEntry' = <<>>
    /\ rawLine' = <<>>
    /\ failed' = {}
    /\ UNCHANGED <<envVars, second, devMode, openFds>>

\* ------------------------------------------------------------ POSIX driver

\* `?' / `return Err' of unix::read_password_from_stdin: the tty File, if one
\* was opened, is dropped with the function's locals
unix_fail(e) == Finish(Err(e), openFds \ {"tty_in"})

\* the success tail: fixes_newline(&mut password); Ok(password)
unix_ok(line) ==
    /\ password' = fixes_newline(line)
    /\ Finish(Ok(password'), openFds \ {"tty_in"})

\* a flag update that switches the newline echo off with the character echo
HideEcho_no_newline(t) == t \ {"ECHO", "ECHONL"}

\* term.c_lflag &= !ECHO; term.c_lflag |= ECHONL
HideEcho(t) == (t \ {"ECHO"}) \cup {"ECHONL"}

\* a restore that passes the working copy instead of the backup
RestoreTarget_working_copy == term

\* the termios both restoring tcsetattr calls pass
RestoreTarget == term_orig

\* a terminal test that takes every descriptor for a terminal
IsTerminal_always == TRUE

\* isatty(tty_fd) == 1: the opened /dev/tty is a terminal, standard input is
\* one when it is not redirected
IsTerminal == src = "Tty" \/ stdinIsTty

\* input selection: File::open("/dev/tty") or io::stdin()
unix_open ==
    /\ pc = "open" /\ platform = "unix"
    /\ IF open_tty
       THEN /\ calls' = Issue("open")
            /\ \/ /\ src' = "Tty"
                  /\ openFds' = openFds \cup {"tty_in"}
                  /\ pc' = "isatty"
                  /\ UNCHANGED result
                  /\ Succeeds
               \/ /\ src' = src
                  /\ unix_fail("open")
                  /\ Fails("open")
       ELSE /\ src' = "Stdin"
            /\ pc' = "isatty"
            /\ UNCHANGED <<calls, openFds, result>>
            /\ Succeeds
    /\ UNCHANGED <<envVars, second, devMode, input, entry, open_tty, input_is_tty, password,
                   unixTerms, mode, readErr, written, modeAtEntry, inputAtEntry,
                   rawLine>>

\* let input_is_tty = ..; if input_is_tty { .. } else { .. }
unix_isatty ==
    /\ pc = "isatty" /\ platform = "unix"
    /\ input_is_tty' = IsTerminal
    /\ pc' = IF input_is_tty' THEN "tcgetattr_term" ELSE "read_piped"
    /\ Succeeds
    /\ UNCHANGED <<envVars, second, devMode, input, openFds, entry, open_tty, src, password,
                   unixTerms, mode, readErr, result, calls, written, modeAtEntry,
                   inputAtEntry, rawLine>>

\* io_result(tcgetattr(tty_fd, &mut term))?
unix_tcgetattr_term ==
    /\ pc = "tcgetattr_term"
    /\ calls' = Issue("get")
    /\ \/ /\ term' = devMode
          /\ pc' = "tcgetattr_orig"
          /\ UNCHANGED <<result, openFds>>
          /\ Succeeds
       \/ /\ term' = term
          /\ unix_fail("tcgetattr")
          /\ Fails("get")
    /\ UNCHANGED <<envVars, second, devMode, input, entry, open_tty, src, input_is_tty, password,
                   term_orig, mode, readErr, written, modeAtEntry, inputAtEntry,
                   rawLine>>

\* io_result(tcgetattr(tty_fd, &mut term_orig))?
unix_tcgetattr_orig ==
    /\ pc = "tcgetattr_orig"
    /\ calls' = Issue("get")
    /\ \/ /\ term_orig' = devMode
          /\ pc' = "tcsetattr"
          /\ UNCHANGED <<result, openFds>>
          /\ Succeeds
       \/ /\ term_orig' = term_orig
          /\ unix_fail("tcgetattr")
          /\ Fails("get")
    /\ UNCHANGED <<envVars, second, devMode, input, entry, open_tty, src, input_is_tty, password,
                   term, mode, readErr, written, modeAtEntry, inputAtEntry, rawLine>>

\* a mode application whose error is dropped: the read goes on
unix_tcsetattr_ignores_error ==
    /\ pc = "tcsetattr"
    /\ term' = HideEcho(term)
    /\ calls' = Issue("apply")
    /\ \/ /\ devMode' = term'
          /\ Succeeds
       \/ /\ devMode' = devMode
          /\ Fails("apply")
    /\ pc' = "read_tty"
    /\ UNCHANGED <<envVars, second, input, entry, open_tty, src, input_is_tty, password,
                   term_orig, mode, readErr, written, modeAtEntry, inputAtEntry,
                   rawLine, result, openFds>>

\* the two flag updates of term, then io_result(tcsetattr(tty_fd, TCSANOW, &term))?
unix_tcsetattr ==
    /\ pc = "tcsetattr"
    /\ term' = HideEcho(term)
    /\ calls' = Issue("apply")
    /\ \/ /\ devMode' = term'
          /\ pc' = "read_tty"
          /\ UNCHANGED <<result, openFds>>
          /\ Succeeds
       \/ /\ devMode' = devMode
          /\ unix_fail("tcsetattr")
          /\ Fails("apply")
    /\ UNCHANGED <<envVars, second, input, entry, open_tty, src, input_is_tty, password,
                   term_orig, mode, readErr, written, modeAtEntry, inputAtEntry,
                   rawLine>>

\* a terminal read that is tried a second time when it fails
unix_read_line_tty_retries ==
    /\ pc = "read_tty"
    /\ calls' = Issue("read")
    /\ \/ /\ password' = LineOf(input)
          /\ input' = RestOf(input)
          /\ readErr' = FALSE
          /\ Succeeds
          /\ pc' = "restore"
       \/ \E part \in PartialReads(input) :
          /\ password' = part
          /\ input' = SubSeq(input, Len(part) + 1, Len(input))
          /\ readErr' = TRUE
          /\ Fails("read")
          /\ pc' = IF calls["read"] = 0 THEN "read_tty" ELSE "restore_err"
    /\ rawLine' = password'
    /\ UNCHANGED <<envVars, second, devMode, openFds, entry, open_tty, src, input_is_tty,
                   unixTerms, mode, result, written, modeAtEntry, inputAtEntry>>

\* the read_line of the terminal branch; `input' is matched by the next step
unix_read_line_tty ==
    /\ pc = "read_tty"
    /\ calls' = Issue("read")
    /\ \/ /\ password' = LineOf(input)
          /\ input' = RestOf(input)
          /\ readErr' = FALSE
          /\ Succeeds
          /\ pc' = "restore"
       \/ \E part \in PartialReads(input) :
          /\ password' = part
          /\ input' = SubSeq(input, Len(part) + 1, Len(input))
          /\ readErr' = TRUE
          /\ Fails("read")
          /\ pc' = "restore_err"
    /\ rawLine' = password'
    /\ UNCHANGED <<envVars, second, devMode, openFds, entry, open_tty, src, input_is_tty,
                   unixTerms, mode, result, written, modeAtEntry, inputAtEntry>>

\* an Err(err) arm that returns the read error whatever the restore did
unix_restore_after_error_keeps_read_error ==
    /\ pc = "restore_err"
    /\ calls' = Issue("restore")
    /\ \/ /\ devMode' = RestoreTarget
          /\ Succeeds
       \/ /\ devMode' = devMode
          /\ Fails("restore")
    /\ password' = zero_memory(password)
    /\ unix_fail("read")
    /\ UNCHANGED <<envVars, second, input, entry, open_tty, src, input_is_tty, unixTerms, mode,
                   readErr, written, modeAtEntry, inputAtEntry, rawLine>>

\* Err(err) arm: io_result(tcsetattr(.., &term_orig))?; zero_memory; return Err(err)
unix_restore_after_error ==
    /\ pc = "restore_err"
    /\ calls' = Issue("restore")
    /\ \/ /\ devMode' = RestoreTarget
          /\ password' = zero_memory(password)
          /\ unix_fail("read")
          /\ Succeeds
       \/ /\ devMode' = devMode
          /\ password' = password
          /\ unix_fail("tcsetattr_restore")
          /\ Fails("restore")
    /\ UNCHANGED <<envVars, second, input, entry, open_tty, src, input_is_tty, unixTerms, mode,
                   readErr, written, modeAtEntry, inputAtEntry, rawLine>>

\* Ok arm: the restoring tcsetattr; on its failure zero_memory and return the
\* error, otherwise fixes_newline and Ok(password)
unix_restore ==
    /\ pc = "restore"
    /\ calls' = Issue("restore")
    /\ \/ /\ devMode' = RestoreTarget
          /\ unix_ok(password)
          /\ Succeeds
       \/ /\ devMode' = devMode
          /\ password' = zero_memory(password)
          /\ unix_fail("tcsetattr_restore")
          /\ Fails("restore")
    /\ UNCHANGED <<envVars, second, input, entry, open_tty, src, input_is_tty, unixTerms, mode,
                   readErr, written, modeAtEntry, inputAtEntry, rawLine>>

\* the non-terminal branch: read_line, zero_memory and the error on failure,
\* otherwise fixes_newline and Ok(password)
unix_read_line_piped ==
    /\ pc = "read_piped"
    /\ calls' = Issue("read")
    /\ \/ /\ rawLine' = LineOf(input)
          /\ input' = RestOf(input)
          /\ readErr' = FALSE
          /\ Succeeds
          /\ unix_ok(rawLine')
       \/ \E part \in PartialReads(input) :
          /\ rawLine' = part
          /\ input' = SubSeq(input, Len(part) + 1, Len(input))
          /\ readErr' = TRUE
          /\ Fails("read")
          /\ password' = zero_memory(part)
          /\ unix_fail("read")
    /\ UNCHANGED <<envVars, second, devMode, entry, open_tty, src, input_is_tty, unixTerms, mode,
                   written, modeAtEntry, inputAtEntry>>

\* ---------------------------------------------------------- Windows driver

\* ENABLE_LINE_INPUT | ENABLE_PROCESSED_INPUT
new_mode_flags == {"ENABLE_LINE_INPUT", "ENABLE_PROCESSED_INPUT"}

\* a return of windows::read_password_from_stdin: the handle went through
\* from_raw_handle / into_raw_handle and nothing closes it
win_return(r) == Finish(r, openFds)

\* CreateFileA("CONIN$") or GetStdHandle(STD_INPUT_HANDLE), and the
\* INVALID_HANDLE_VALUE test
win_get_handle ==
    /\ pc = "open" /\ platform = "windows"
    /\ calls' = IF open_tty THEN Issue("open") ELSE calls
    /\ \/ /\ src' = IF open_tty THEN "Tty" ELSE "Stdin"
          /\ openFds' = IF open_tty THEN openFds \cup {"conin"} ELSE openFds
          /\ pc' = "GetConsoleMode"
          /\ UNCHANGED result
          /\ Succeeds
       \/ /\ src' = src
          /\ win_return(Err("open"))
          /\ Fails("open")
    /\ UNCHANGED <<envVars, second, devMode, input, entry, open_tty, input_is_tty, password,
                   unixTerms, mode, readErr, written, modeAtEntry, inputAtEntry,
                   rawLine>>

\* GetConsoleMode(handle, &mut mode): it succeeds only on a console handle, so a
\* piped or redirected standard input makes it fail
win_get_console_mode ==
    /\ pc = "GetConsoleMode"
    /\ calls' = Issue("get")
    /\ \/ /\ src = "Tty" \/ stdinIsTty
          /\ mode' = devMode
          /\ pc' = "SetConsoleMode"
          /\ UNCHANGED <<result, openFds>>
          /\ Succeeds
       \/ /\ mode' = mode
          /\ win_return(Err("GetConsoleMode"))
          /\ Fails("get")
    /\ UNCHANGED <<envVars, second, devMode, input, entry, open_tty, src, input_is_tty, password,
                   unixTerms, readErr, written, modeAtEntry, inputAtEntry, rawLine>>

\* SetConsoleMode(handle, new_mode_flags)
win_set_console_mode ==
    /\ pc = "SetConsoleMode"
    /\ calls' = Issue("apply")
    /\ \/ /\ devMode' = new_mode_flags
          /\ pc' = "win_read"
          /\ UNCHANGED <<result, openFds>>
          /\ Succeeds
       \/ /\ devMode' = devMode
          /\ win_return(Err("SetConsoleMode"))
          /\ Fails("apply")
    /\ UNCHANGED <<envVars, second, input, entry, open_tty, src, input_is_tty, password,
                   unixTerms, mode, readErr, written, modeAtEntry, inputAtEntry,
                   rawLine>>

\* source.read_line(&mut password) and the match on its result: on Err
\* zero_memory and return Err(err)
win_read_line ==
    /\ pc = "win_read"
    /\ calls' = Issue("read")
    /\ \/ /\ rawLine' = LineOf(input)
          /\ input' = RestOf(input)
          /\ readErr' = FALSE
          /\ Succeeds
          /\ password' = rawLine'
          /\ pc' = "win_restore"
          /\ UNCHANGED <<result, openFds>>
          /\ Succeeds
       \/ \E part \in PartialReads(input) :
          /\ rawLine' = part
          /\ input' = SubSeq(input, Len(part) + 1, Len(input))
          /\ readErr' = TRUE
          /\ Fails("read")
          /\ password' = zero_memory(part)
          /\ win_return(Err("read"))
    /\ UNCHANGED <<envVars, second, devMode, entry, open_tty, src, input_is_tty, unixTerms, mode,
                   written, modeAtEntry, inputAtEntry>>

\* SetConsoleMode(handle, mode); then fixes_newline, println!("\n"), Ok(password)
win_restore ==
    /\ pc = "win_restore"
    /\ calls' = Issue("restore")
    /\ \/ /\ devMode' = mode
          /\ password' = fixes_newline(password)
          /\ written' = written \cup {<<"stdout", "newline">>}
          /\ win_return(Ok(password'))
          /\ Succeeds
       \/ /\ devMode' = devMode
          /\ password' = password
          /\ written' = written
          /\ win_return(Err("SetConsoleMode_restore"))
          /\ Fails("restore")
    /\ UNCHANGED <<envVars, second, input, entry, open_tty, src, input_is_tty, unixTerms, mode,
                   readErr, modeAtEntry, inputAtEntry, rawLine>>

\* -------------------------------------------------------------- the system

Next ==
    \/ read_password
    \/ read_password_with_reader
    \/ read_password_from_tty
    \/ prompt_password_stdout
    \/ prompt_password_stderr
    \/ reader_read_line
    \/ display_on_tty
    \/ prompt_write
    \/ unix_open
    \/ unix_isatty
    \/ unix_tcgetattr_term
    \/ unix_tcgetattr_orig
    \/ unix_tcsetattr
    \/ unix_read_line_tty
    \/ unix_restore_after_error
    \/ unix_restore
    \/ unix_read_line_piped
    \/ win_get_handle
    \/ win_get_console_mode
    \/ win_set_console_mode
    \/ win_read_line
    \/ win_restore
    \/ Return

Spec == Init /\ [][Next]_vars

TypeOK ==
    /\ platform \in Platforms
    /\ devMode \subseteq ModeFlags(platform)
    /\ password \in Seq(Alphabet \cup {NUL})
    /\ result.kind \in {"None", "Ok", "Err"}
    /\ \A k \in CallKinds : calls[k] \in 0..2

\* ------------------------------------------- the Line Sanitizer on its own

\* fixes_newline applied, twice in a row, to an arbitrary buffer
InitSan ==
    /\ platform = "unix"
    /\ stdinIsTty = FALSE
    /\ devMode = {}
    /\ input = <<>>
    /\ openFds = {}
    /\ pc = "fix0"
    /\ entry = "fixes_newline"
    /\ open_tty = FALSE
    /\ src = "none"
    /\ input_is_tty = FALSE
    /\ password \in Strings
    /\ term = NoMode
    /\ term_orig = NoMode
    /\ mode = NoMode
    /\ readErr = FALSE
    /\ result = NoResult
    /\ calls = NoCalls
    /\ written = {}
    /\ modeAtEntry = devMode
    /\ inputAtEntry = password
    /\ rawLine = <<>>
    /\ failed = {}
    /\ SecondIdle

apply_fixes_newline ==
    /\ pc \in {"fix0", "fix1"}
    /\ rawLine' = password
    /\ password' = fixes_newline(password)
    /\ pc' = IF pc = "fix0" THEN "fix1" ELSE "fix2"
    /\ Succeeds
    /\ UNCHANGED <<envVars, second, devMode, input, openFds, entry, open_tty, src, input_is_tty,
                   unixTerms, mode, readErr, result, calls, written, modeAtEntry,
                   inputAtEntry>>

NextSan == apply_fixes_newline

SpecSan == InitSan /\ [][NextSan]_vars

\* ------------------------------ two threads in the terminal-opening read

\* the variables of the first thread's call
first == <<pc, entry, open_tty, src, input_is_tty, password, unixTerms, mode, readErr,
           result, calls, written, modeAtEntry, inputAtEntry, rawLine, failed>>

\* what the terminal has to deliver when two threads read it
ConcStrings == {<<LF>>, <<CharA, LF>>}

\* the first thread calls read_password_from_stdin(true)
first_enter ==
    \E content \in ConcStrings : Enter("read_password_from_tty", TRUE, content, "open")

\* the second thread calls read_password_from_stdin(true)
second_enter ==
    /\ pcB = "idle" /\ platform = "unix"
    /\ pcB' = "open"
    /\ termB' = NoMode
    /\ term_origB' = NoMode
    /\ passwordB' = <<>>
    /\ resultB' = NoResult
    /\ modeAtEntryB' = devMode
    /\ UNCHANGED <<envVars, first, devMode, input, openFds>>

\* a return of the second thread's call: its tty File is dropped
second_finish(r) ==
    /\ resultB' = r
    /\ pcB' = "done"
    /\ openFds' = openFds \ {"tty_inB"}

\* the second thread: File::open("/dev/tty")?, and isatty of the opened terminal
second_open ==
    /\ pcB = "open"
    /\ \/ /\ openFds' = openFds \cup {"tty_inB"}
          /\ pcB' = "tcgetattr_term"
          /\ UNCHANGED resultB
       \/ second_finish(Err("open"))
    /\ UNCHANGED <<envVars, first, devMode, input, termB, term_origB, passwordB,
                   modeAtEntryB>>

\* the second thread: io_result(tcgetattr(tty_fd, &mut term))?
second_tcgetattr_term ==
    /\ pcB = "tcgetattr_term"
    /\ \/ /\ termB' = devMode
          /\ pcB' = "tcgetattr_orig"
          /\ UNCHANGED <<resultB, openFds>>
       \/ /\ termB' = termB
          /\ second_finish(Err("tcgetattr"))
    /\ UNCHANGED <<envVars, first, devMode, input, term_origB, passwordB, modeAtEntryB>>

\* the second thread: io_result(tcgetattr(tty_fd, &mut term_orig))?
second_tcgetattr_orig ==
    /\ pcB = "tcgetattr_orig"
    /\ \/ /\ term_origB' = devMode
          /\ pcB' = "tcsetattr"
          /\ UNCHANGED <<resultB, openFds>>
       \/ /\ term_origB' = term_origB
          /\ second_finish(Err("tcgetattr"))
    /\ UNCHANGED <<envVars, first, devMode, input, termB, passwordB, modeAtEntryB>>

\* the second thread: the flag updates and tcsetattr(tty_fd, TCSANOW, &term)
second_tcsetattr ==
    /\ pcB = "tcsetattr"
    /\ termB' = HideEcho(termB)
    /\ \/ /\ devMode' = termB'
          /\ pcB' = "read_tty"
          /\ UNCHANGED <<resultB, openFds>>
       \/ /\ devMode' = devMode
          /\ second_finish(Err("tcsetattr"))
    /\ UNCHANGED <<envVars, first, input, term_origB, passwordB, modeAtEntryB>>

\* the second thread: tty.read_line(&mut password)
second_read_line ==
    /\ pcB = "read_tty"
    /\ \/ /\ passwordB' = LineOf(input)
          /\ input' = RestOf(input)
          /\ pcB' = "restore"
       \/ \E part \in PartialReads(input) :
          /\ passwordB' = part
          /\ input' = SubSeq(input, Len(part) + 1, Len(input))
          /\ pcB' = "restore_err"
    /\ UNCHANGED <<envVars, first, devMode, openFds, termB, term_origB, resultB,
                   modeAtEntryB>>

\* a restore of the second thread that passes its working copy
RestoreTargetB_working_copy == termB

\* the termios the second thread's restoring tcsetattr calls pass
RestoreTargetB == term_origB

\* the second thread: the Err(err) arm
second_restore_after_error ==
    /\ pcB = "restore_err"
    /\ \/ /\ devMode' = RestoreTargetB
          /\ passwordB' = zero_memory(passwordB)
          /\ second_finish(Err("read"))
       \/ /\ devMode' = devMode
          /\ passwordB' = passwordB
          /\ second_finish(Err("tcsetattr_restore"))
    /\ UNCHANGED <<envVars, first, input, termB, term_origB, modeAtEntryB>>

\* the second thread: the restoring tcsetattr, fixes_newline, Ok(password)
second_restore ==
    /\ pcB = "restore"
    /\ \/ /\ devMode' = RestoreTargetB
          /\ passwordB' = fixes_newline(passwordB)
          /\ second_finish(Ok(passwordB'))
       \/ /\ devMode' = devMode
          /\ passwordB' = zero_memory(passwordB)
          /\ second_finish(Err("tcsetattr_restore"))
    /\ UNCHANGED <<envVars, first, input, termB, term_origB, modeAtEntryB>>

\* the second thread's caller takes the result
second_return ==
    /\ pcB = "done"
    /\ pcB' = "idle"
    /\ termB' = NoMode
    /\ term_origB' = NoMode
    /\ passwordB' = <<>>
    /\ resultB' = NoResult
    /\ modeAtEntryB' = {}
    /\ UNCHANGED <<envVars, first, devMode, input, openFds>>

\* the POSIX build on one terminal, standard input redirected
InitConc == Init /\ platform = "unix" /\ ~stdinIsTty

\* no serialization: the steps of the two calls interleave freely
NextConc ==
    \/ first_enter
    \/ unix_open
    \/ unix_isatty
    \/ unix_tcgetattr_term
    \/ unix_tcgetattr_orig
    \/ unix_tcsetattr
    \/ unix_read_line_tty
    \/ unix_restore_after_error
    \/ unix_restore
    \/ Return
    \/ second_enter
    \/ second_open
    \/ second_tcgetattr_term
    \/ second_tcgetattr_orig
    \/ second_tcsetattr
    \/ second_read_line
    \/ second_restore_after_error
    \/ second_restore
    \/ second_return

SpecConc == InitConc /\ [][NextConc]_vars

\* ------------------------------------------------------------- properties

AllZero(s) == \A i \in 1..Len(s) : s[i] = NUL

HasLF(s) == \E i \in 1..Len(s) : s[i] = LF

\* s holds no '\n' except, possibly, as its last byte: what one line read leaves
\* in an empty buffer
IsOneLine(s) == \A i \in 1..(Len(s) - 1) : s[i] # LF

\* r is what precedes the first line terminator ("\n" or "\r\n") of s and rest
\* what follows it; with no terminator r is all of s and nothing is left
IsFirstLine(s, r, rest) ==
    IF HasLF(s)
    THEN \E k \in 1..Len(s) :
            /\ s[k] = LF
            /\ \A j \in 1..(k - 1) : s[j] # LF
            /\ r = IF k > 1 /\ s[k - 1] = CR
                   THEN SubSeq(s, 1, k - 2) ELSE SubSeq(s, 1, k - 1)
            /\ rest = SubSeq(s, k + 1, Len(s))
    ELSE r = s /\ rest = <<>>

StdinEntries == {"read_password", "read_password_with_reader_none"}

\* C1: POSIX driver on an interactive terminal: whenever a call has returned,
\* after a successful read or a failed one, and its restoring tcsetattr did not
\* itself fail, the terminal mode is the mode the call started with.
C1_ModeRestoredAtReturn ==
    (platform = "unix" /\ pc = "done" /\ input_is_tty
        /\ result.err # "tcsetattr_restore")
    => devMode = modeAtEntry

\* a call on an echoing terminal whose read failed and whose restore worked
C1_Witness ==
    /\ platform = "unix" /\ pc = "done" /\ input_is_tty
    /\ readErr /\ result = Err("read") /\ calls["restore"] = 1
    /\ "ECHO" \in modeAtEntry /\ "ECHONL" \notin modeAtEntry
    /\ devMode = modeAtEntry

\* C2: Windows driver: when the line read fails after the console mode was
\* changed, a restore of the original mode is attempted before the error is
\* returned, and the console mode at return is the mode at entry.
C2_WinRestoreAfterReadFailure ==
    (platform = "windows" /\ pc = "done" /\ readErr /\ calls["apply"] = 1)
    => (calls["restore"] >= 1 /\ devMode = modeAtEntry)

\* C3: POSIX driver: on every error return after the line read was attempted,
\* every byte of the secret buffer is zero.
C3_UnixZeroOnError ==
    (platform = "unix" /\ pc = "done" /\ src \in {"Tty", "Stdin"}
        /\ result.kind = "Err" /\ calls["read"] >= 1)
    => AllZero(password)

\* C4: Windows driver: when the read succeeds and restoring the console mode
\* fails, the secret buffer is zeroed before that error is returned.
C4_WinZeroOnRestoreFailure ==
    (platform = "windows" /\ pc = "done" /\ result.err = "SetConsoleMode_restore")
    => AllZero(password)

\* C5: fixes_newline(s): a trailing "\r\n" is removed, a trailing "\n" with no
\* "\r" before it is removed, a string not ending in "\n" (a lone trailing "\r"
\* included) is left as it is; nothing else changes.
C5_SanitizerCases ==
    pc = "fix1" =>
        LET s == inputAtEntry
            n == Len(s)
        IN  /\ (n >= 2 /\ s[n] = LF /\ s[n - 1] = CR) => password = SubSeq(s, 1, n - 2)
            /\ (n >= 1 /\ s[n] = LF /\ (n = 1 \/ s[n - 1] # CR))
                  => password = SubSeq(s, 1, n - 1)
            /\ (n = 0 \/ s[n] # LF) => password = s

\* "A\r\n" became "A"
C5_Witness ==
    pc = "fix1" /\ inputAtEntry = <<CharA, CR, LF>> /\ password = <<CharA>>

\* C6 as stated: for every string s, fixes_newline(fixes_newline(s)) =
\* fixes_newline(s).
C6_IdempotentOnEveryString ==
    pc = "fix2" => password = rawLine

\* C6 as amended: for every string s with no "\n" except possibly as its last
\* byte, fixes_newline(fixes_newline(s)) = fixes_newline(s).
C6_IdempotentOnOneLine ==
    (pc = "fix2" /\ IsOneLine(inputAtEntry)) => password = rawLine

\* "A\r\n" was sanitized to "A" and the second pass left "A" alone
C6_Witness ==
    /\ pc = "fix2" /\ inputAtEntry = <<CharA, CR, LF>>
    /\ rawLine = <<CharA>> /\ password = <<CharA>>

\* C7: read_password_with_reader(Some(source)) whose read does not fail returns
\* Ok with the characters before the first "\n" or "\r\n" of the source, or with
\* all of it when there is no terminator (Ok("") at end of input), and leaves
\* in the source what follows that line.
C7_ReaderReturnsFirstLine ==
    (pc = "done" /\ entry = "read_password_with_reader_some" /\ ~readErr)
    => /\ result.kind = "Ok"
       /\ IsFirstLine(inputAtEntry, result.val, input)
       /\ (inputAtEntry = <<>> => result = Ok(<<>>))

\* "A\nA": "A" returned, the second line still in the source
C7_Witness ==
    /\ pc = "done" /\ entry = "read_password_with_reader_some"
    /\ inputAtEntry = <<CharA, LF, CharA>>
    /\ result = Ok(<<CharA>>) /\ input = <<CharA>>

\* C8: POSIX driver reading a standard input that is not a terminal: no
\* tcgetattr and no tcsetattr is ever issued, the device mode is untouched, and
\* a read that does not fail returns the first line, sanitized.
C8_UnixPipedNoModeCalls ==
    (platform = "unix" /\ src = "Stdin" /\ ~stdinIsTty)
    => /\ calls["get"] = 0 /\ calls["apply"] = 0 /\ calls["restore"] = 0
       /\ devMode = modeAtEntry
       /\ (pc = "done" /\ ~readErr)
             => (result.kind = "Ok" /\ IsFirstLine(inputAtEntry, result.val, input))

\* a piped "A\r\n" read to the end
C8_Witness ==
    /\ platform = "unix" /\ src = "Stdin" /\ ~stdinIsTty /\ pc = "done"
    /\ inputAtEntry = <<CharA, CR, LF>> /\ result = Ok(<<CharA>>)
    /\ calls["read"] = 1

\* C9: Windows driver reading a piped or redirected standard input: the line
\* is read and, unless the read itself fails, returned sanitized; no
\* console-mode call makes the operation fail.
C9_WinPipedReadsLine ==
    (platform = "windows" /\ pc = "done" /\ src = "Stdin" /\ ~stdinIsTty)
    => /\ calls["read"] = 1
       /\ result.err \notin {"GetConsoleMode", "SetConsoleMode", "SetConsoleMode_restore"}
       /\ ~readErr
             => (result.kind = "Ok" /\ IsFirstLine(inputAtEntry, result.val, input))

C11_OnlyPromptWritten ==
    /\ \A w \in written : w[2] = "prompt"
    /\ entry \in StdinEntries \cup {"read_password_with_reader_some"} => written = {}

\* C14: every descriptor or handle a call opened itself is closed when the
\* call has returned, on success and on every error path, on both drivers.
C14_NoDescriptorLeftOpen ==
    pc \in {"done", "idle"} => openFds = {}

\* C12: in the terminal read, when the line read failed and the restore of the
\* original mode failed too, the restore error is returned; when the read
\* failed and the restore succeeded (or none was issued), the read error is.
C12_RestoreErrorTakesPrecedence ==
    (pc = "done" /\ readErr /\ src \in {"Tty", "Stdin"})
    => IF "restore" \in failed
       THEN result \in {Err("tcsetattr_restore"), Err("SetConsoleMode_restore")}
       ELSE result = Err("read")

\* the read failed, then the restore failed: the restore error came back
C12_Witness ==
    /\ pc = "done" /\ readErr /\ failed = {"read", "restore"}
    /\ result = Err("tcsetattr_restore")

\* C16: POSIX driver on a terminal, while the line read is in progress: the
\* device mode has ECHO cleared and ECHONL set and agrees with the original
\* snapshot on every other flag; from its capture to the restore the original
\* snapshot stays what it was captured as.
C16_EchoHiddenDuringRead ==
    /\ (platform = "unix" /\ pc = "read_tty")
          => /\ "ECHO" \notin devMode /\ "ECHONL" \in devMode
             /\ devMode \ {"ECHO", "ECHONL"} = term_orig \ {"ECHO", "ECHONL"}
    /\ (platform = "unix" /\ pc \in {"tcsetattr", "read_tty", "restore", "restore_err"})
          => term_orig = modeAtEntry

\* reading on a terminal that was echoing in canonical mode
C16_Witness ==
    /\ platform = "unix" /\ pc = "read_tty"
    /\ term_orig = {"ECHO", "ICANON"} /\ devMode = {"ECHONL", "ICANON"}

\* C17: when opening the terminal device, querying the mode or applying the
\* echo-disabled mode fails, read_password_from_stdin returns that error with
\* no read done, no restore issued and the device mode as it was at entry.
C17_EarlyFailureNoSideEffect ==
    (pc = "done" /\ failed \cap {"open", "get", "apply"} # {})
    => /\ result.kind = "Err"
       /\ "open" \in failed => result.err = "open"
       /\ "get" \in failed => result.err \in {"tcgetattr", "GetConsoleMode"}
       /\ "apply" \in failed => result.err \in {"tcsetattr", "SetConsoleMode"}
       /\ calls["read"] = 0 /\ calls["restore"] = 0
       /\ devMode = modeAtEntry
       /\ input = inputAtEntry /\ password = <<>>

\* the echo-disabling tcsetattr failed on an echoing terminal
C17_Witness ==
    /\ platform = "unix" /\ pc = "done" /\ failed = {"apply"}
    /\ result = Err("tcsetattr") /\ "ECHO" \in devMode

\* C19: the entry point fixes the input source: read_password_from_tty reads
\* only from a terminal device it opened itself; read_password,
\* read_password_with_reader(None) and the two prompt_password functions read
\* only from standard input and open no terminal device;
\* read_password_with_reader(Some(source)) reads only the source and issues no
\* open and no terminal-mode call.
C19_SourceFixedByEntry ==
    /\ entry = "read_password_from_tty"
          => /\ src \in {"none", "Tty"}
             /\ calls["read"] >= 1 => (src = "Tty" /\ calls["open"] = 1)
    /\ entry \in StdinEntries \cup {"prompt_password_stdout", "prompt_password_stderr"}
          => (src \in {"none", "Stdin"} /\ calls["open"] = 0)
    /\ entry = "read_password_with_reader_some"
          => /\ src \in {"none", "reader"}
             /\ \A k \in {"open", "get", "apply", "restore"} : calls[k] = 0
             /\ devMode = modeAtEntry

\* read_password_from_tty read its line from the terminal although standard
\* input is redirected
C19_Witness ==
    /\ entry = "read_password_from_tty" /\ pc = "done" /\ ~stdinIsTty
    /\ src = "Tty" /\ calls["open"] = 1 /\ calls["read"] = 1 /\ result.kind = "Ok"

PromptEntries ==
    {"read_password_from_tty", "prompt_password_stdout", "prompt_password_stderr"}

\* C13: read_password_from_tty, prompt_password_stdout and
\* prompt_password_stderr: while the prompt is still to be written nothing has
\* been opened, read or changed; once the read path has started the prompt has
\* been written without error; and when writing or flushing the prompt failed
\* the call has returned that error with no open, no mode change and no read.
C13_PromptBeforeRead ==
    /\ pc \in {"display", "prompt"}
          => /\ calls = NoCalls /\ src = "none" /\ written = {}
             /\ devMode = modeAtEntry /\ input = inputAtEntry
    /\ (entry \in {"prompt_password_stdout", "prompt_password_stderr"}
            /\ (calls # NoCalls \/ src # "none"))
          => /\ \E w \in written : w[2] = "prompt"
             /\ "write" \notin failed
    /\ (entry = "read_password_from_tty" /\ (calls # NoCalls \/ src # "none"))
          => "write" \notin failed
    /\ "write" \in failed
          => /\ entry \in PromptEntries /\ pc = "done"
             /\ result.kind = "Err" /\ result.err \in {"open_out", "write", "flush"}
             /\ calls = NoCalls /\ src = "none"
             /\ devMode = modeAtEntry /\ input = inputAtEntry

\* read_password_from_tty(Some(prompt)): the prompt is on the terminal and the
\* line was read after it
C13_Witness ==
    /\ entry = "read_password_from_tty" /\ pc = "done"
    /\ written = {<<"tty", "prompt">>} /\ calls["read"] = 1 /\ result.kind = "Ok"

\* how many steps a call at position p has at most before it returns
Rank(p) ==
    CASE p \in {"display", "prompt"} -> 8
      [] p = "open" -> 7
      [] p = "isatty" -> 6
      [] p \in {"tcgetattr_term", "GetConsoleMode"} -> 5
      [] p = "tcgetattr_orig" -> 4
      [] p \in {"tcsetattr", "SetConsoleMode"} -> 3
      [] p \in {"read_tty", "win_read"} -> 2
      [] p \in {"restore", "restore_err", "win_restore", "read_piped", "reader"} -> 1
      [] OTHER -> 0

\* C18: within one call the device open, the mode application, the line read
\* and the mode restoration are each issued at most once; once an OS call has
\* failed the call issues nothing more but, after a failed read, one restore,
\* and returns an error; every step brings the call nearer to its return and a
\* call that has not returned can take a step.
C18_NoRetryAndTermination ==
    /\ [](/\ \A k \in {"open", "apply", "read", "restore"} : calls[k] <= 1
          /\ failed # {} => pc \in {"done", "restore_err"}
          /\ (failed # {} /\ pc = "done") => result.kind = "Err"
          /\ pc \notin {"idle", "done"} => ENABLED Next)
    /\ [][/\ (failed # {} /\ pc' # "idle")
               => \/ calls' = calls
                  \/ /\ pc = "restore_err" /\ pc' = "done"
                     /\ calls' = [calls EXCEPT !["restore"] = 1]
          /\ pc \notin {"idle", "done"} => Rank(pc') < Rank(pc)]_vars

\* a call whose read failed and that issued its one restore
C18_Witness ==
    /\ pc = "done" /\ "read" \in failed
    /\ calls["open"] = 1 /\ calls["apply"] = 1 /\ calls["read"] = 1
    /\ calls["restore"] = 1 /\ result.kind = "Err"

\* C15: two overlapping read_password_from_stdin(true) calls with no
\* serialization: whenever both have returned Ok the terminal is left in the
\* mode one of them captured as its original, so echo stays off exactly when a
\* call captured the mode the other had already muted and restored it last.
C15_LastRestoreWins ==
    (pc = "done" /\ pcB = "done" /\ result.kind = "Ok" /\ resultB.kind = "Ok")
    => /\ devMode \in {term_orig, term_origB}
       /\ "ECHO" \notin devMode => ("ECHO" \notin term_orig \/ "ECHO" \notin term_origB)

\* both calls started on an echoing terminal, every OS call succeeded, both
\* returned Ok, and the echo is off: the second call captured the muted mode
C15_Witness ==
    /\ pc = "done" /\ pcB = "done" /\ result.kind = "Ok" /\ resultB.kind = "Ok"
    /\ failed = {}
    /\ "ECHO" \in modeAtEntry /\ "ECHO" \in modeAtEntryB
    /\ "ECHO" \in term_orig /\ "ECHO" \notin term_origB
    /\ devMode = term_origB /\ "ECHO" \notin devMode

====
